---- MODULE Spec2Model ----
(***************************************************************************)
(* cargo-service (src/main.rs): a local service manager.  `start <path>`   *)
(* spawns the binary and appends {binary_path, pid} to the registry file   *)
(* cache.ron; `stop <path>` runs `kill -9 <pid>` and removes the record.   *)
(* Every invocation is its own OS process: it loads the registry, acts on  *)
(* the OS, and rewrites the registry.  The registry file and the OS        *)
(* process table are the only shared state.                                *)
(***************************************************************************)
EXTENDS Integers, Sequences, FiniteSets, TLC

(* ------------------------------ bounds -------------------------------- *)

\* Process ids the OS hands out are 1..MaxPid.
MaxPid == 2

\* Longest registry an initial registry file may hold.
MaxInitLen == 2

\* Most tokens a failed write_all leaves in the file.
MaxPartial == 1

PidSet == 1..MaxPid

\* Binary paths given on the command line, as character sequences.  The
\* third one holds the two characters the RON string syntax escapes.
Paths == { <<"a">>, <<"b">>, <<"\\", "\"">> }

\* Invocation slots: each is one run of the tool (one OS process) at a time.
Procs == 1..3

\* The sequential runs reuse one slot; the concurrent runs use each slot once.
SeqProcs == {1}

ConcProcs == Procs

\* Paths the concurrent invocations are given.
ConcPaths == { <<"a">>, <<"b">> }

(* --------------------------- struct Service --------------------------- *)

\* Option<u32>: None is <<>>, Some(n) is <<n>>.
None == <<>>

Some(n) == <<n>>

Service(path, pid) == [binary_path |-> path, pid |-> pid]

\* Service::from_str: the command-line argument becomes a Service without pid.
FromStr(s) == Service(s, None)

(* ---------------------- RON text of the registry ---------------------- *)

\* One token of the file's text.
Tok(t) == [t |-> t, s |-> <<>>, n |-> 0]

StrTok(chars) == [t |-> "str", s |-> chars, n |-> 0]

IntTok(n) == [t |-> "int", s |-> <<>>, n |-> n]

RECURSIVE Escape_QuoteOnly(_)
\* Faulty variant: only the double quote is escaped.
Escape_QuoteOnly(s) ==
    IF s = <<>> THEN <<>>
    ELSE (IF Head(s) = "\"" THEN <<"\\", Head(s)>> ELSE <<Head(s)>>)
         \o Escape_QuoteOnly(Tail(s))

RECURSIVE Escape(_)
\* The body of a RON string literal: backslash and double quote are escaped.
Escape(s) ==
    IF s = <<>> THEN <<>>
    ELSE (IF Head(s) \in {"\\", "\""} THEN <<"\\", Head(s)>> ELSE <<Head(s)>>)
         \o Escape(Tail(s))

RECURSIVE Unescape(_)
\* Reading a string literal's body back: a backslash takes the next character.
Unescape(s) ==
    IF s = <<>> THEN <<>>
    ELSE IF Head(s) = "\\" /\ Len(s) >= 2
         THEN <<s[2]>> \o Unescape(Tail(Tail(s)))
         ELSE <<Head(s)>> \o Unescape(Tail(s))

\* pid: Some(n) or None.
PidToks(pid) ==
    IF pid = None THEN <<Tok("None")>>
    ELSE <<Tok("Some"), Tok("("), IntTok(pid[1]), Tok(")")>>

\* ( binary_path: "..", pid: .., ),
ServiceToks(sv) ==
    <<Tok("("), Tok("binary_path"), Tok(":"), StrTok(Escape(sv.binary_path)), Tok(","),
      Tok("pid"), Tok(":")>> \o PidToks(sv.pid) \o <<Tok(","), Tok(")"), Tok(",")>>

RECURSIVE ItemsToks(_)
ItemsToks(svs) ==
    IF svs = <<>> THEN <<>> ELSE ServiceToks(Head(svs)) \o ItemsToks(Tail(svs))

\* to_string_pretty(services): [ item, item, ]
Serialise(svs) == <<Tok("[")>> \o ItemsToks(svs) \o <<Tok("]")>>

Drop(s, k) == SubSeq(s, k + 1, Len(s))

ParseFail == [ok |-> FALSE, val |-> <<>>]

\* The pid field at the head of toks: [ok, val, rest].
ParsePid(toks) ==
    IF Len(toks) >= 1 /\ toks[1] = Tok("None")
    THEN [ok |-> TRUE, val |-> None, rest |-> Drop(toks, 1)]
    ELSE IF /\ Len(toks) >= 4
            /\ toks[1] = Tok("Some") /\ toks[2] = Tok("(")
            /\ toks[3].t = "int" /\ toks[4] = Tok(")")
         THEN [ok |-> TRUE, val |-> Some(toks[3].n), rest |-> Drop(toks, 4)]
         ELSE [ok |-> FALSE, val |-> None, rest |-> <<>>]

RECURSIVE ParseItems(_)
\* The items after the opening bracket, up to and including the closing one.
ParseItems(toks) ==
    IF toks = <<>> THEN ParseFail
    ELSE IF toks[1] = Tok("]")
    THEN (IF Len(toks) = 1 THEN [ok |-> TRUE, val |-> <<>>] ELSE ParseFail)
    ELSE IF /\ Len(toks) >= 7
            /\ toks[1] = Tok("(") /\ toks[2] = Tok("binary_path") /\ toks[3] = Tok(":")
            /\ toks[4].t = "str" /\ toks[5] = Tok(",")
            /\ toks[6] = Tok("pid") /\ toks[7] = Tok(":")
    THEN LET p == ParsePid(Drop(toks, 7)) IN
         IF /\ p.ok /\ Len(p.rest) >= 3
            /\ p.rest[1] = Tok(",") /\ p.rest[2] = Tok(")") /\ p.rest[3] = Tok(",")
         THEN LET more == ParseItems(Drop(p.rest, 3)) IN
              IF more.ok
              THEN [ok |-> TRUE,
                    val |-> <<Service(Unescape(toks[4].s), p.val)>> \o more.val]
              ELSE ParseFail
         ELSE ParseFail
    ELSE ParseFail

\* from_reader(file): the whole text must be one list of Service.
Parse(toks) ==
    IF Len(toks) >= 1 /\ toks[1] = Tok("[") THEN ParseItems(Drop(toks, 1)) ELSE ParseFail

(* ------------------------------- state -------------------------------- *)

VARIABLES
    exists,     \* whether cache.ron exists
    content,    \* its text, as tokens (<<>> while it does not exist)
    live,       \* pids of the running processes the tool spawned
    pc,         \* per slot: "idle", "loaded", "save" or "done"
    op,         \* per slot: "start" or "stop"
    arg,        \* per slot: the binary_path given on the command line
    services,   \* per slot: the local Vec<Service>
    outcome,    \* per slot: how the invocation ended ("none" while it runs)
    pre,        \* per slot: the registry file as it was when the slot loaded it
    spawned,    \* per slot: the pid returned by spawn() in this invocation
    killed,     \* per slot: the pids `kill -9` was run on in this invocation
    osres,      \* per slot: how the spawn or the `kill` of this invocation went
    saves,      \* per slot: the number of save_services calls of this invocation
    writer      \* the slot whose save last changed the file, 0 before any

vars == <<exists, content, live, pc, op, arg, services, outcome, pre, spawned,
          killed, osres, saves, writer>>

\* The registry file as one value.
FileNow == [exists |-> exists, content |-> content]

(* --------------------------- Registry Store --------------------------- *)

\* Faulty variant: a file that does not parse is read as the empty list.
load_services_Lenient(f, io) ==
    IF ~io THEN ParseFail
    ELSE IF ~f.exists \/ ~Parse(f.content).ok THEN [ok |-> TRUE, val |-> <<>>]
    ELSE Parse(f.content)

\* load_services: no file gives the empty Vec; otherwise the file is opened and
\* parsed, and either step failing panics.  io is whether get_config_path and
\* File::open succeed.
load_services(f, io) ==
    IF ~io THEN ParseFail
    ELSE IF ~f.exists THEN [ok |-> TRUE, val |-> <<>>]
    ELSE Parse(f.content)

\* Faulty variant: the file is opened for appending instead of being truncated.
save_services_Append(f, svs, res, k) ==
    IF res = "ok" THEN [exists |-> TRUE, content |-> f.content \o Serialise(svs)]
    ELSE IF res = "write_failed"
         THEN [exists |-> TRUE, content |-> f.content \o SubSeq(Serialise(svs), 1, k)]
         ELSE f

\* Faulty variant: a failed File::create leaves no file behind.
save_services_Unlink(f, svs, res, k) ==
    IF res = "ok" THEN [exists |-> TRUE, content |-> Serialise(svs)]
    ELSE IF res = "write_failed"
         THEN [exists |-> TRUE, content |-> SubSeq(Serialise(svs), 1, k)]
         ELSE [exists |-> FALSE, content |-> <<>>]

\* The files save_services can leave behind: res is "ok", "create_failed"
\* (get_config_path or File::create failed: nothing written) or "write_failed"
\* (File::create truncated the file and write_all stopped after k tokens).
save_services(f, svs, res, k) ==
    IF res = "ok" THEN [exists |-> TRUE, content |-> Serialise(svs)]
    ELSE IF res = "write_failed"
         THEN [exists |-> TRUE, content |-> SubSeq(Serialise(svs), 1, k)]
         ELSE f

SaveResults == {"ok", "create_failed", "write_failed"}

\* The registry a file holds, <<>> when there is none or it does not parse.
RegistryOf(f) == load_services(f, TRUE).val

Readable(f) == load_services(f, TRUE).ok

(* ------------------------- Service Controller ------------------------- *)

\* Faulty variant: the duplicate check never finds the path.
HasPath_Never(svs, p) == FALSE

\* Faulty variant: only the first record is compared.
HasPath_FirstOnly(svs, p) == Len(svs) >= 1 /\ svs[1].binary_path = p

\* services.iter().any(|s| s.binary_path == p)
HasPath(svs, p) == \E k \in 1..Len(svs) : svs[k].binary_path = p

\* Faulty variant: an unknown path falls back to the last record.
Position_Fallback(svs, p) ==
    IF \E k \in 1..Len(svs) : svs[k].binary_path = p
    THEN CHOOSE k \in 1..Len(svs) :
             /\ svs[k].binary_path = p
             /\ \A j \in 1..(k - 1) : svs[j].binary_path # p
    ELSE Len(svs)

\* services.iter().position(|s| s.binary_path == p); 0 stands for None.
Position(svs, p) ==
    IF HasPath(svs, p)
    THEN CHOOSE k \in 1..Len(svs) :
             /\ svs[k].binary_path = p
             /\ \A j \in 1..(k - 1) : svs[j].binary_path # p
    ELSE 0

\* Faulty variant: the last record is removed, whatever the index.
Remove_Pop(svs, index) == SubSeq(svs, 1, Len(svs) - 1)

\* Faulty variant: the record after the one found is removed.
Remove_OffByOne(svs, index) == SubSeq(svs, 1, index) \o SubSeq(svs, index + 2, Len(svs))

\* services.remove(index)
Remove(svs, index) == SubSeq(svs, 1, index - 1) \o SubSeq(svs, index + 1, Len(svs))

\* Faulty variant: the new record replaces the loaded list.
Push_Only(svs, sv) == <<sv>>

\* Faulty variant: the new record is inserted at the front.
Push_Front(svs, sv) == <<sv>> \o svs

\* services.push(service)
Push(svs, sv) == Append(svs, sv)

\* Faulty variant: the pid is not set on the record.
WithPid_Forget(sv, pid) == sv

\* binary_path with service.pid = Some(child.id())
WithPid(sv, pid) == [sv EXCEPT !.pid = Some(pid)]

\* A new invocation enters start_service or stop_service and loads the registry.
Load(i, o, p, io) ==
    /\ pc[i] \in {"idle", "done"}
    /\ LET r == load_services(FileNow, io) IN
         /\ pc' = [pc EXCEPT ![i] = IF r.ok THEN "loaded" ELSE "done"]
         /\ outcome' = [outcome EXCEPT ![i] = IF r.ok THEN "none" ELSE "load_failed"]
         /\ services' = [services EXCEPT ![i] = r.val]
    /\ op' = [op EXCEPT ![i] = o]
    /\ arg' = [arg EXCEPT ![i] = p]
    /\ pre' = [pre EXCEPT ![i] = FileNow]
    /\ spawned' = [spawned EXCEPT ![i] = <<>>]
    /\ killed' = [killed EXCEPT ![i] = <<>>]
    /\ osres' = [osres EXCEPT ![i] = "none"]
    /\ saves' = [saves EXCEPT ![i] = 0]
    /\ UNCHANGED <<exists, content, live, writer>>

\* start_service, line 62.
start_service_load(i, p, io) == Load(i, "start", FromStr(p).binary_path, io)

\* stop_service, line 83.
stop_service_load(i, p, io) == Load(i, "stop", FromStr(p).binary_path, io)

\* Faulty variant: a failed spawn is not fatal.
SpawnPanics_Never(child) == FALSE

\* .spawn().expect("Failed to start service"): child is the pid spawn()
\* returns, 0 standing for Err; Err panics.
SpawnPanics(child) == child = 0

\* start_service, lines 64-76: the duplicate check, the spawn and the push.
start_service_spawn(i) ==
    /\ pc[i] = "loaded" /\ op[i] = "start"
    /\ IF HasPath(services[i], arg[i])
       THEN /\ pc' = [pc EXCEPT ![i] = "done"]
            /\ outcome' = [outcome EXCEPT ![i] = "already_exists"]
            /\ UNCHANGED <<live, services, spawned, osres>>
       ELSE \E child \in {0} \cup (PidSet \ live) :
              /\ osres' = [osres EXCEPT ![i] = IF child = 0 THEN "spawn_err" ELSE "spawn_ok"]
              /\ IF SpawnPanics(child)
                 THEN /\ pc' = [pc EXCEPT ![i] = "done"]
                      /\ outcome' = [outcome EXCEPT ![i] = "spawn_failed"]
                      /\ UNCHANGED <<live, services, spawned>>
                 ELSE /\ live' = IF child = 0 THEN live ELSE live \cup {child}
                      /\ spawned' = [spawned EXCEPT ![i] = <<child>>]
                      /\ services' = [services EXCEPT
                            ![i] = Push(services[i], WithPid(FromStr(arg[i]), child))]
                      /\ pc' = [pc EXCEPT ![i] = "save"]
                      /\ UNCHANGED outcome
    /\ UNCHANGED <<exists, content, op, arg, pre, killed, saves, writer>>

\* How running `kill -9 pid` can go: the command cannot be run at all (output()
\* is Err), or it runs and the signal is delivered (exit status 0) or is not
\* (no such process, not permitted: exit status 1).
KillRuns == {"exec_err", "deliver", "refuse"}

\* .output().expect("Failed to stop service"): only Err panics; the exit status
\* in the Output is not looked at.
KillPanics(run) == run = "exec_err"

\* Faulty variant: a record without pid is given pid 0 instead of panicking.
RecordedPid_Default(sv) == IF sv.pid = None THEN Some(0) ELSE sv.pid

\* service.pid of the record found; .expect("Service PID not found") panics on None.
RecordedPid(sv) == sv.pid

\* stop_service, lines 85-95 and 98-100: the lookup, the kill and the remove.
stop_service_kill(i) ==
    /\ pc[i] = "loaded" /\ op[i] = "stop"
    /\ LET index == Position(services[i], arg[i]) IN
       IF index = 0
       THEN /\ pc' = [pc EXCEPT ![i] = "done"]
            /\ outcome' = [outcome EXCEPT ![i] = "not_found"]
            /\ UNCHANGED <<live, services, killed, osres>>
       ELSE IF RecordedPid(services[i][index]) = None
       THEN /\ pc' = [pc EXCEPT ![i] = "done"]
            /\ outcome' = [outcome EXCEPT ![i] = "missing_pid"]
            /\ UNCHANGED <<live, services, killed, osres>>
       ELSE LET pid == RecordedPid(services[i][index])[1] IN
            \E run \in KillRuns :
              LET hit == run = "deliver" /\ pid \in live IN
              /\ osres' = [osres EXCEPT ![i] =
                             IF run = "exec_err" THEN "kill_err"
                             ELSE IF hit THEN "kill_exit0" ELSE "kill_exit1"]
              /\ killed' = [killed EXCEPT ![i] =
                              IF run = "exec_err" THEN killed[i] ELSE Append(killed[i], pid)]
              /\ live' = IF hit THEN live \ {pid} ELSE live
              /\ IF KillPanics(run)
                 THEN /\ pc' = [pc EXCEPT ![i] = "done"]
                      /\ outcome' = [outcome EXCEPT ![i] = "kill_failed"]
                      /\ UNCHANGED services
                 ELSE /\ services' = [services EXCEPT ![i] = Remove(services[i], index)]
                      /\ pc' = [pc EXCEPT ![i] = "save"]
                      /\ UNCHANGED outcome
    /\ UNCHANGED <<exists, content, op, arg, pre, spawned, saves, writer>>

\* save_services(&services) and the closing println!.
Save(i, done, res, k) ==
    /\ pc[i] = "save"
    /\ k < Len(Serialise(services[i]))
    /\ (res # "write_failed") => (k = 0)
    /\ LET f == save_services(FileNow, services[i], res, k) IN
         /\ exists' = f.exists
         /\ content' = f.content
         /\ outcome' = [outcome EXCEPT ![i] = IF res = "ok" THEN done ELSE "save_failed"]
         /\ writer' = IF res = "create_failed" THEN writer ELSE i
    /\ pc' = [pc EXCEPT ![i] = "done"]
    /\ saves' = [saves EXCEPT ![i] = saves[i] + 1]
    /\ UNCHANGED <<live, op, arg, services, pre, spawned, killed, osres>>

\* start_service, lines 77-78.
start_service_save(i, res, k) == op[i] = "start" /\ Save(i, "started", res, k)

\* stop_service, lines 96-97.
stop_service_save(i, res, k) == op[i] = "stop" /\ Save(i, "stopped", res, k)

\* A spawned process ends on its own; the tool never waits for its children.
ChildExit ==
    /\ \E q \in live : live' = live \ {q}
    /\ UNCHANGED <<exists, content, pc, op, arg, services, outcome, pre, spawned,
                   killed, osres, saves, writer>>

(* --------------------------- specifications --------------------------- *)

NoFile == [exists |-> FALSE, content |-> <<>>]

InitSlots ==
    /\ pc = [i \in Procs |-> "idle"]
    /\ op = [i \in Procs |-> "start"]
    /\ arg = [i \in Procs |-> <<>>]
    /\ services = [i \in Procs |-> <<>>]
    /\ outcome = [i \in Procs |-> "none"]
    /\ pre = [i \in Procs |-> NoFile]
    /\ spawned = [i \in Procs |-> <<>>]
    /\ killed = [i \in Procs |-> <<>>]
    /\ osres = [i \in Procs |-> "none"]
    /\ saves = [i \in Procs |-> 0]
    /\ writer = 0

\* No two records share a binary_path.
Unique(svs) ==
    \A j, k \in 1..Len(svs) : svs[j].binary_path = svs[k].binary_path => j = k

\* Registries an earlier run may have left: duplicate-free, pid present or not.
InitRegistries ==
    { r \in UNION { [1..n -> [binary_path : Paths, pid : {None} \cup {Some(q) : q \in PidSet}]]
                    : n \in 0..MaxInitLen } : Unique(r) }

\* A first run: no registry file, or one holding the empty list.
Init ==
    /\ exists \in BOOLEAN
    /\ content = IF exists THEN Serialise(<<>>) ELSE <<>>
    /\ live = {}
    /\ InitSlots

\* A later run: any duplicate-free registry, the recorded processes running or not.
InitAny ==
    /\ \E r \in InitRegistries :
         /\ \/ exists = TRUE /\ content = Serialise(r)
            \/ exists = FALSE /\ content = <<>> /\ r = <<>>
         /\ live \in SUBSET { r[k].pid[1] : k \in { j \in 1..Len(r) : r[j].pid # None } }
    /\ InitSlots

\* Invocations run one after the other.
Next ==
    \/ \E i \in SeqProcs, p \in Paths, io \in BOOLEAN : start_service_load(i, p, io)
    \/ \E i \in SeqProcs : start_service_spawn(i)
    \/ \E i \in SeqProcs, res \in SaveResults, k \in 0..MaxPartial :
          start_service_save(i, res, k)
    \/ \E i \in SeqProcs, p \in Paths, io \in BOOLEAN : stop_service_load(i, p, io)
    \/ \E i \in SeqProcs : stop_service_kill(i)
    \/ \E i \in SeqProcs, res \in SaveResults, k \in 0..MaxPartial :
          stop_service_save(i, res, k)
    \/ ChildExit

Spec == Init /\ [][Next]_vars

SpecAny == InitAny /\ [][Next]_vars

\* Concurrent invocations, one per slot, interleaved at their loads, OS actions
\* and saves; storage faults are left to the sequential runs.
NextConc ==
    \/ \E i \in ConcProcs, p \in ConcPaths :
          pc[i] = "idle" /\ start_service_load(i, p, TRUE)
    \/ \E i \in ConcProcs : start_service_spawn(i)
    \/ \E i \in ConcProcs : start_service_save(i, "ok", 0)
    \/ \E i \in ConcProcs, p \in ConcPaths :
          pc[i] = "idle" /\ stop_service_load(i, p, TRUE)
    \/ \E i \in ConcProcs : stop_service_kill(i)
    \/ \E i \in ConcProcs : stop_service_save(i, "ok", 0)
    \/ ChildExit

SpecConc == Init /\ [][NextConc]_vars

\* The scenario of the testable properties: Start(p) on an empty registry, then
\* Start(p) again, then Stop(p), one after the other, in slots 1, 2 and 3.
NextScenario ==
    \/ \E p \in Paths, io \in BOOLEAN :
          pc[1] = "idle" /\ start_service_load(1, p, io)
    \/ \E io \in BOOLEAN :
          pc[1] = "done" /\ pc[2] = "idle" /\ start_service_load(2, arg[1], io)
    \/ \E io \in BOOLEAN :
          pc[2] = "done" /\ pc[3] = "idle" /\ stop_service_load(3, arg[1], io)
    \/ \E i \in Procs : start_service_spawn(i)
    \/ \E i \in Procs, res \in SaveResults, k \in 0..MaxPartial :
          start_service_save(i, res, k)
    \/ \E i \in Procs : stop_service_kill(i)
    \/ \E i \in Procs, res \in SaveResults, k \in 0..MaxPartial :
          stop_service_save(i, res, k)
    \/ ChildExit

SpecScenario == Init /\ [][NextScenario]_vars

\* Strings a binary_path may be: empty, plain, and with the characters the
\* string syntax escapes in every position.
RoundTripPaths ==
    { <<>>, <<"a">>, <<"\"">>, <<"\\", "\\">>, <<"\\", "\"">>, <<"\\", "a">> }

\* Any sequence of Service: paths may repeat, the pid may be absent.
RoundTripInputs ==
    UNION { [1..n -> [binary_path : RoundTripPaths,
                      pid : {None} \cup {Some(q) : q \in PidSet}]] : n \in 0..MaxInitLen }

\* An invocation about to call save_services on any Vec<Service>, no file yet.
InitRoundTrip ==
    /\ exists = FALSE /\ content = <<>> /\ live = {}
    /\ \E svs \in RoundTripInputs, o \in {"start", "stop"} :
         /\ pc = [i \in Procs |-> IF i = 1 THEN "save" ELSE "idle"]
         /\ op = [i \in Procs |-> IF i = 1 THEN o ELSE "start"]
         /\ services = [i \in Procs |-> IF i = 1 THEN svs ELSE <<>>]
    /\ arg = [i \in Procs |-> <<>>]
    /\ outcome = [i \in Procs |-> "none"]
    /\ pre = [i \in Procs |-> NoFile]
    /\ spawned = [i \in Procs |-> <<>>]
    /\ killed = [i \in Procs |-> <<>>]
    /\ osres = [i \in Procs |-> "none"]
    /\ saves = [i \in Procs |-> 0]
    /\ writer = 0

\* save_services in slot 1, then load_services by the next invocation in slot 2.
NextRoundTrip ==
    \/ \E res \in SaveResults, k \in 0..MaxPartial : start_service_save(1, res, k)
    \/ \E res \in SaveResults, k \in 0..MaxPartial : stop_service_save(1, res, k)
    \/ \E io \in BOOLEAN :
          pc[1] = "done" /\ pc[2] = "idle" /\ start_service_load(2, <<"a">>, io)

SpecRoundTrip == InitRoundTrip /\ [][NextRoundTrip]_vars

\* Concurrent invocations meeting the registry an earlier run left: any
\* duplicate-free registry over the paths they use, the recorded processes
\* running or not.
InitConc ==
    /\ \E r \in { q \in InitRegistries :
                    \A k \in 1..Len(q) : q[k].binary_path \in ConcPaths } :
         /\ \/ exists = TRUE /\ content = Serialise(r)
            \/ exists = FALSE /\ content = <<>> /\ r = <<>>
         /\ live \in SUBSET { r[k].pid[1] : k \in { j \in 1..Len(r) : r[j].pid # None } }
    /\ InitSlots

SpecConcAny == InitConc /\ [][NextConc]_vars

\* Slot i starts only when every slot before it has finished.
PriorDone(i) == \A j \in Procs : j < i => pc[j] = "done"

\* Three invocations one after the other, each in a slot of its own, so that
\* what each of them loaded, spawned and killed stays on record; no save fails.
NextSequence ==
    \/ \E i \in Procs, p \in Paths, io \in BOOLEAN :
          pc[i] = "idle" /\ PriorDone(i) /\ start_service_load(i, p, io)
    \/ \E i \in Procs : start_service_spawn(i)
    \/ \E i \in Procs : start_service_save(i, "ok", 0)
    \/ \E i \in Procs, p \in Paths, io \in BOOLEAN :
          pc[i] = "idle" /\ PriorDone(i) /\ stop_service_load(i, p, io)
    \/ \E i \in Procs : stop_service_kill(i)
    \/ \E i \in Procs : stop_service_save(i, "ok", 0)
    \/ ChildExit

SpecSequence == Init /\ [][NextSequence]_vars

(* ------------------------------- claims ------------------------------- *)

\* The registry the file holds now.
Registry == RegistryOf(FileNow)

\* The registry slot i loaded at the start of its invocation.
Before(i) == RegistryOf(pre[i])

\* Registry reg holds a record for path p.
Registered(reg, p) == \E k \in DOMAIN reg : reg[k].binary_path = p

\* Registry reg less its records for path p.
NotFor(rec, p) == rec.binary_path # p

Without(reg, p) == SelectSeq(reg, LAMBDA rec : NotFor(rec, p))

\* Slot i has finished an invocation that got past the load.
Ended(i) == pc[i] = "done" /\ outcome[i] # "load_failed"

\* C1: from an absent or duplicate-free registry file, after any sequence of
\* Start and Stop invocations run one after the other, whatever their outcome,
\* the persisted registry holds no two records with the same binary_path.
C1_Unique == Readable(FileNow) => Unique(Registry)

\* A Start has appended to a registry that already held two records.
C1_Witness ==
    /\ pc[1] = "done" /\ outcome[1] = "started"
    /\ Readable(FileNow) /\ Len(Registry) = 3

\* C2: a Stop(p) on a registered path whose termination request fails at the
\* OS level (kill cannot be run, or exits non-zero: process gone, not permitted)
\* ends in the fatal KillFailure with the registry file unchanged and no save.
C2_KillFailureAborts ==
    \A i \in Procs :
        (pc[i] = "done" /\ op[i] = "stop" /\ osres[i] \in {"kill_err", "kill_exit1"})
        => /\ outcome[i] = "kill_failed"
           /\ FileNow = pre[i]
           /\ saves[i] = 0

\* C3: a successful Stop(p) shrinks the persisted registry by exactly one
\* record, the removed record has binary_path p, and the other records are
\* unchanged and keep their order.
C3_StopRemovesOne ==
    \A i \in Procs :
        (pc[i] = "done" /\ op[i] = "stop" /\ outcome[i] = "stopped")
        => /\ Readable(FileNow)
           /\ Len(Registry) = Len(Before(i)) - 1
           /\ \E k \in 1..Len(Before(i)) :
                /\ Before(i)[k].binary_path = arg[i]
                /\ \A j \in 1..(k - 1) : Registry[j] = Before(i)[j]
                /\ \A j \in k..Len(Registry) : Registry[j] = Before(i)[j + 1]

\* A Stop has removed the middle one of three records.
C3_Witness ==
    /\ pc[1] = "done" /\ op[1] = "stop" /\ outcome[1] = "stopped"
    /\ Len(Before(1)) = 3 /\ Before(1)[2].binary_path = arg[1]

\* C4: Start(p) on a registry that already holds a record for p reports
\* "already exists", spawns nothing, saves nothing and leaves the registry file
\* as it was, with exactly one record for p.
C4_DuplicateStartNoOp ==
    \A i \in Procs :
        (pc[i] # "idle" /\ op[i] = "start" /\ Readable(pre[i]) /\ Registered(Before(i), arg[i]))
        => /\ pc[i] # "save"
           /\ Ended(i) => outcome[i] = "already_exists"
           /\ spawned[i] = <<>> /\ osres[i] = "none"
           /\ saves[i] = 0
           /\ FileNow = pre[i]
           /\ Cardinality({k \in 1..Len(Registry) : Registry[k].binary_path = arg[i]}) = 1

\* A Start has ended as "already exists" on a path that is not the first record.
C4_Witness ==
    /\ pc[1] = "done" /\ outcome[1] = "already_exists"
    /\ Len(Registry) >= 2 /\ Registry[2].binary_path = arg[1]

\* C5: a Start(p) whose spawn fails ends in the fatal SpawnFailure without
\* mutating or writing the registry: the file is as before and holds no record
\* for p.
C5_SpawnFailureAborts ==
    \A i \in Procs :
        (op[i] = "start" /\ osres[i] = "spawn_err")
        => /\ pc[i] = "done" /\ outcome[i] = "spawn_failed"
           /\ saves[i] = 0
           /\ FileNow = pre[i]
           /\ ~Registered(Registry, arg[i])
           /\ services[i] = Before(i)

\* A spawn has failed on a non-empty registry.
C5_Witness ==
    /\ pc[1] = "done" /\ op[1] = "start" /\ osres[1] = "spawn_err"
    /\ Len(Registry) >= 1

\* C6: a Stop(p) when no record has binary_path exactly p ends in the fatal
\* NotFound, runs kill on no pid, and leaves the registry file as it was.
C6_StopUnknownAborts ==
    \A i \in Procs :
        (pc[i] # "idle" /\ op[i] = "stop" /\ Readable(pre[i]) /\ ~Registered(Before(i), arg[i]))
        => /\ pc[i] # "save"
           /\ Ended(i) => outcome[i] = "not_found"
           /\ killed[i] = <<>> /\ osres[i] = "none"
           /\ saves[i] = 0
           /\ FileNow = pre[i]

\* A Stop has ended as "not found" on a registry holding other records.
C6_Witness ==
    /\ pc[1] = "done" /\ op[1] = "stop" /\ outcome[1] = "not_found"
    /\ Len(Registry) >= 1

\* C7: a successful Start(p) on a registry without a record for p (no file
\* counting as the empty registry) persists the previous registry with the one
\* record {p, pid returned by the spawn} appended at the end.
C7_StartAppends ==
    \A i \in Procs :
        (pc[i] = "done" /\ op[i] = "start" /\ outcome[i] = "started")
        => /\ ~Registered(Before(i), arg[i])
           /\ Len(spawned[i]) = 1
           /\ Readable(FileNow)
           /\ Registry = Before(i) \o <<[binary_path |-> arg[i], pid |-> <<spawned[i][1]>>]>>

\* A Start has succeeded where there was no registry file.
C7_WitnessNoFile ==
    /\ pc[1] = "done" /\ op[1] = "start" /\ outcome[1] = "started"
    /\ ~pre[1].exists

\* C8: from an absent or empty registry, every record of the persisted registry
\* has a pid, and no Stop ends as MissingPid.
C8_PidPresent ==
    /\ \A k \in 1..Len(Registry) : Registry[k].pid # None
    /\ \A i \in Procs : outcome[i] # "missing_pid"

\* A Stop has read the pid of a record and succeeded, other records remaining.
C8_Witness ==
    /\ pc[1] = "done" /\ op[1] = "stop" /\ outcome[1] = "stopped"
    /\ Len(Registry) >= 1

\* Slot i's own change is missing from the persisted registry.
ChangeAbsent(i) ==
    IF op[i] = "start" THEN ~Registered(Registry, arg[i]) ELSE Registered(Registry, arg[i])

\* Slots i and j both succeeded on different paths from the same loaded
\* registry, and j's save is the one the file holds.
Overwrote(i, j) ==
    /\ i # j /\ arg[i] # arg[j]
    /\ pc[i] = "done" /\ outcome[i] \in {"started", "stopped"}
    /\ pc[j] = "done" /\ outcome[j] \in {"started", "stopped"}
    /\ pre[i] = pre[j]
    /\ writer = j

\* C9: when two invocations on different paths load the same registry and both
\* succeed, the registry left by the later save is the loaded registry with
\* only the later saver's change: the earlier saver's change is lost.
C9_LostUpdate ==
    \A i, j \in Procs :
        Overwrote(i, j)
        => /\ ChangeAbsent(i)
           /\ Readable(FileNow)
           /\ Registry = IF op[j] = "start"
                         THEN Before(j) \o <<[binary_path |-> arg[j], pid |-> <<spawned[j][1]>>]>>
                         ELSE Without(Before(j), arg[j])

\* Two overlapping invocations, the third slot unused: both loaded the initial
\* registry, both saved, and the second save dropped the first one's change.
C9_Witness ==
    /\ Overwrote(1, 2) /\ pc[3] = "idle"
    /\ saves[1] = 1 /\ saves[2] = 1
    /\ ChangeAbsent(1)

\* A Stop's removal is lost to a concurrent Start's save.
C9_WitnessStop ==
    /\ Overwrote(2, 3) /\ op[2] = "stop" /\ op[3] = "start"
    /\ pc[1] = "done" /\ pre[1] # pre[2]
    /\ ChangeAbsent(2)

\* The first call of the scenario succeeded: p and the pid P it recorded.
ScenarioStarted == pc[1] = "done" /\ outcome[1] = "started"

ScenarioRecord == [binary_path |-> arg[1], pid |-> spawned[1]]

\* C10: Start(p) on an empty registry with spawn returning P, Start(p) again,
\* Stop(p): the registry is [{p, P}] after the first call, unchanged by the
\* second, [] after the third, and the only kill is the Stop's, on P.
C10_Scenario ==
    ScenarioStarted
    => /\ pc[3] # "done" => (Readable(FileNow) /\ Registry = <<ScenarioRecord>>)
       /\ (pc[2] = "done" /\ outcome[2] # "load_failed")
          => (outcome[2] = "already_exists" /\ saves[2] = 0 /\ spawned[2] = <<>>)
       /\ (pc[3] = "done" /\ outcome[3] = "stopped")
          => (Readable(FileNow) /\ Registry = <<>> /\ killed[3] = spawned[1])
       /\ killed[1] = <<>> /\ killed[2] = <<>>
       /\ killed[3] \in {<<>>, spawned[1]}

\* The three calls have run: started, already exists, stopped.
C10_Witness ==
    /\ ScenarioStarted
    /\ pc[2] = "done" /\ outcome[2] = "already_exists"
    /\ pc[3] = "done" /\ outcome[3] = "stopped"

\* File f holds a registry: there is no file, or its text parses.
Parses(f) == ~f.exists \/ Parse(f.content).ok

\* C11: when the save fails after the OS action succeeded, nothing is undone.
\* After such a Start the spawned process has been sent no kill and the
\* registry holds no record for it; after such a Stop the record of the killed
\* process is still what the file held before, or the file is a truncated text.
C11_NoCompensation ==
    \A i \in Procs :
        (pc[i] = "done" /\ outcome[i] = "save_failed")
        => /\ saves[i] = 1
           /\ FileNow = pre[i] \/ ~Parses(FileNow)
           /\ op[i] = "start"
              => /\ osres[i] = "spawn_ok" /\ Len(spawned[i]) = 1
                 /\ killed[i] = <<>>
                 /\ ~Registered(Registry, arg[i])
           /\ op[i] = "stop"
              => /\ osres[i] \in {"kill_exit0", "kill_exit1"} /\ Len(killed[i]) = 1
                 /\ spawned[i] = <<>>
                 /\ Parses(FileNow)
                    => \E k \in 1..Len(Registry) :
                          Registry[k] = [binary_path |-> arg[i], pid |-> killed[i]]

\* A Start's save failed: its process runs, and the registry has no record of it.
C11_WitnessStart ==
    /\ pc[1] = "done" /\ op[1] = "start" /\ outcome[1] = "save_failed"
    /\ spawned[1] # <<>> /\ spawned[1][1] \in live
    /\ Parses(FileNow) /\ ~Registered(Registry, arg[1])

\* A Stop's save failed after the kill was delivered: the record is still there.
C11_WitnessStop ==
    /\ pc[1] = "done" /\ op[1] = "stop" /\ outcome[1] = "save_failed"
    /\ osres[1] = "kill_exit0"
    /\ Parses(FileNow) /\ Registered(Registry, arg[1])

\* C12: for any sequence of Service, save followed by load yields an equal
\* sequence: the written text parses, and the next invocation's loaded Vec has
\* the same records with the same fields in the same order.
C12_RoundTrip ==
    (pc[1] = "done" /\ outcome[1] \in {"started", "stopped"})
    => /\ exists
       /\ Parse(content) = [ok |-> TRUE, val |-> services[1]]
       /\ pc[2] = "loaded" => services[2] = services[1]
       /\ pc[2] = "done" => pre[2] = FileNow

\* Two records read back: an escaped path with a pid, and one without a pid.
C12_Witness ==
    /\ pc[2] = "loaded" /\ Len(services[2]) = 2
    /\ services[2][1] = [binary_path |-> <<"\\", "\"">>, pid |-> Some(1)]
    /\ services[2][2].pid = None
    /\ services[2][2].binary_path = services[2][1].binary_path

\* The first record for path p in registry reg lacks a pid.
LacksPid(reg, p) ==
    \E k \in 1..Len(reg) :
        /\ reg[k].binary_path = p /\ reg[k].pid = None
        /\ \A j \in 1..(k - 1) : reg[j].binary_path # p

\* C13: a Stop(p) on a registry whose record for p has no pid ends in the fatal
\* MissingPid: kill is run on no pid, the record stays, the file is unchanged.
C13_MissingPidAborts ==
    \A i \in Procs :
        (pc[i] # "idle" /\ op[i] = "stop" /\ Parses(pre[i]) /\ LacksPid(Before(i), arg[i]))
        => /\ pc[i] # "save"
           /\ Ended(i) => outcome[i] = "missing_pid"
           /\ killed[i] = <<>> /\ osres[i] = "none"
           /\ saves[i] = 0
           /\ FileNow = pre[i]
           /\ LacksPid(Registry, arg[i])

\* A Stop has ended as MissingPid on the second of two records.
C13_Witness ==
    /\ pc[1] = "done" /\ op[1] = "stop" /\ outcome[1] = "missing_pid"
    /\ Len(Registry) = 2 /\ Registry[2].binary_path = arg[1]

\* C14: the registry is loaded before any OS action.  When the load fails (the
\* file cannot be opened or does not parse) the Start or Stop ends there: no
\* process is spawned or killed and the file is not rewritten.
C14_LoadFailureAborts ==
    \A i \in Procs :
        (pc[i] # "idle" /\ (~Parses(pre[i]) \/ outcome[i] = "load_failed"))
        => /\ pc[i] = "done" /\ outcome[i] = "load_failed"
           /\ spawned[i] = <<>> /\ killed[i] = <<>> /\ osres[i] = "none"
           /\ saves[i] = 0
           /\ FileNow = pre[i]

\* A Stop has ended at the load of a truncated registry file.
C14_Witness ==
    /\ pc[1] = "done" /\ op[1] = "stop" /\ outcome[1] = "load_failed"
    /\ pre[1].exists /\ ~Parses(pre[1])

\* A Start has ended at the load of a well-formed file that could not be opened.
C14_WitnessOpen ==
    /\ pc[1] = "done" /\ op[1] = "start" /\ outcome[1] = "load_failed"
    /\ pre[1].exists /\ Parses(pre[1]) /\ Len(Before(1)) >= 1


\* C15: from a duplicate-free registry, under every interleaving of the loads,
\* OS actions and saves of concurrent Start and Stop invocations, several
\* Starts of the same path included, every registry the file holds has no two
\* records with the same binary_path.
C15_UniqueConcurrent == Parses(FileNow) => Unique(Registry)

\* Two Starts of one unregistered path that loaded the same file, both spawned
\* and both saved: the file holds a single record for that path.
C15_Witness ==
    \E i, j \in ConcProcs :
        /\ i # j
        /\ Ended(i) /\ Ended(j)
        /\ op[i] = "start" /\ op[j] = "start" /\ arg[i] = arg[j]
        /\ outcome[i] = "started" /\ outcome[j] = "started"
        /\ pre[i] = pre[j]
        /\ Before(i) # <<>>
        /\ Registered(Registry, arg[i])
        /\ Unique(Registry)


\* No invocation is under way.
Quiet == \A i \in Procs : pc[i] \in {"idle", "done"}

\* Slot i was a Start that spawned a process and saved its record.
StartedOk(i) == pc[i] = "done" /\ op[i] = "start" /\ outcome[i] = "started"

\* The record a successful Start in slot i wrote: its path and its spawn pid.
RecordOf(i) == [binary_path |-> arg[i], pid |-> spawned[i]]

\* A later Stop addressed its kill request to the pid of the process slot i spawned.
Targeted(i) == \E j \in Procs : j > i /\ op[j] = "stop" /\ killed[j] = spawned[i]

\* A later Stop of the path slot i started got its kill command to run.
StoppedSince(i) ==
    \E j \in Procs : j > i /\ op[j] = "stop" /\ arg[j] = arg[i] /\ killed[j] # <<>>

\* Registry reg holds exactly one record per slot of S, that slot's record,
\* and S has at most one slot per binary_path.
Corresponds(reg, S) ==
    /\ \A i \in S : Cardinality({ k \in DOMAIN reg : reg[k] = RecordOf(i) }) = 1
    /\ \A k \in DOMAIN reg : \E i \in S : reg[k] = RecordOf(i)
    /\ Len(reg) = Cardinality(S)
    /\ \A i, j \in S : arg[i] = arg[j] => i = j

\* No spawn of the run returned a pid an earlier spawn of the run had returned.
NoPidReuse ==
    \A i, j \in Procs : (i # j /\ spawned[i] # <<>>) => spawned[i] # spawned[j]

\* C16 as stated: between sequential invocations from an empty registry, no save
\* failing, the registry holds exactly one record, with the spawn pid, per
\* process spawned by a successful Start and not since the target of a Stop's
\* kill request, and at most one such process exists per binary_path.
C16_Correspondence ==
    Quiet => Corresponds(Registry, { i \in Procs : StartedOk(i) /\ ~Targeted(i) })

\* C16 amended: the registry holds exactly one record, with the spawn pid, per
\* successful Start whose path no later Stop has run its kill command for, at
\* most one per binary_path; these are the processes not since targeted by a
\* kill request whenever the OS has handed out no pid twice.
C16_CorrespondenceByPath ==
    Quiet =>
        /\ Corresponds(Registry, { i \in Procs : StartedOk(i) /\ ~StoppedSince(i) })
        /\ NoPidReuse => C16_Correspondence

\* Start(p) and Start(q) spawned under the same pid, the first process having
\* ended in between; Stop(p) then addressed that pid and q's record remains.
C16_Witness ==
    /\ Quiet
    /\ StartedOk(1) /\ StartedOk(2) /\ arg[1] # arg[2] /\ spawned[1] = spawned[2]
    /\ op[3] = "stop" /\ arg[3] = arg[1] /\ outcome[3] = "stopped"
    /\ killed[3] = spawned[2]
    /\ Registry = <<RecordOf(2)>>

\* Two Starts and a Stop of the first path, no pid handed out twice: the
\* registry holds the record of the second Start alone.
C16_WitnessNoReuse ==
    /\ Quiet /\ NoPidReuse
    /\ StartedOk(1) /\ StartedOk(2)
    /\ op[3] = "stop" /\ arg[3] = arg[1] /\ outcome[3] = "stopped"
    /\ Registry = <<RecordOf(2)>>


\* Stop(a) in slot i and Start(b) in slot j loaded the same registry, both
\* succeeded, and the Start's save came last.
Resurrected(i, j) == Overwrote(i, j) /\ op[i] = "stop" /\ op[j] = "start"

\* Slot m is a Stop of path p that loaded the file as it is now and has run
\* its kill command.
StopAgain(m, p) ==
    /\ op[m] = "stop" /\ arg[m] = p
    /\ pre[m] = FileNow
    /\ osres[m] \in {"kill_exit0", "kill_exit1"}

\* C17: when Stop(a) and Start(b) load the same registry (a registered, b not)
\* and the Start saves after the Stop, the registry again holds a's record with
\* the pid the Stop ran its kill on, next to b's record; a later Stop(a) that
\* loads this registry runs its kill on that same stale pid.
C17_Resurrection ==
    \A i, j \in ConcProcs :
        Resurrected(i, j)
        => /\ \E k \in DOMAIN Registry :
                 Registry[k] = [binary_path |-> arg[i], pid |-> killed[i]]
           /\ Registered(Registry, arg[j])
           /\ \A m \in ConcProcs \ {i, j} : StopAgain(m, arg[i]) => killed[m] = killed[i]

\* The race with the process really killed by the first Stop, and a second
\* Stop(a) whose kill found no process under the stale pid.
C17_Witness ==
    \E i, j, m \in ConcProcs :
        /\ Resurrected(i, j) /\ m \notin {i, j}
        /\ osres[i] = "kill_exit0"
        /\ StopAgain(m, arg[i]) /\ osres[m] = "kill_exit1"
        /\ killed[m] = killed[i]
        /\ killed[i][1] \notin live

====
